---- MODULE Spec2Model ----
(***************************************************************************)
(* Model of crossflow.py: the ThermoFluidProperties record, its calculator *)
(* methods and the __main__ pipeline.                                      *)
(*                                                                         *)
(* Numbers are exact rationals <<n, d>> with d > 0 in lowest terms; the    *)
(* pair <<0, 0>> stands for Python's None.  Python floats round, the model *)
(* does not; no claim checked here depends on a rounding error.            *)
(***************************************************************************)
EXTENDS Integers, Sequences, FiniteSets, TLC

VARIABLES rec, last, pc, locals

vars == <<rec, last, pc, locals>>

-----------------------------------------------------------------------------
(* Rational arithmetic standing in for Python float arithmetic. *)

None == <<0, 0>>

IsNone(x) == x[2] = 0

Abs(n) == IF n < 0 THEN -n ELSE n

gcd[a \in Nat, b \in Nat] == IF b = 0 THEN a ELSE gcd[b, a % b]

(* n/d in lowest terms with a positive denominator, g the gcd of the two. *)
Reduce(n, d, g) ==
    IF d < 0 THEN <<(-n) \div g, (-d) \div g>> ELSE <<n \div g, d \div g>>

R(n, d) == Reduce(n, d, gcd[Abs(n), Abs(d)])

Zero == R(0, 1)
One == R(1, 1)
Thousand == R(1000, 1)

RMul(a, b) == R(a[1] * b[1], a[2] * b[2])
RSub(a, b) == R(a[1] * b[2] - b[1] * a[2], a[2] * b[2])
RDiv(a, b) == R(a[1] * b[2], a[2] * b[1])
RLeq(a, b) == a[1] * b[2] <= b[1] * a[2]
RLt(a, b) == a[1] * b[2] < b[1] * a[2]
RIsZero(a) == a[1] = 0

-----------------------------------------------------------------------------
(* The dataclass defaults. *)

default_water_flow_rate_L_min == R(21, 10)
default_water_density == R(1000, 1)
default_water_specific_heat == R(209, 50)
default_T_hot_in == R(474, 10)
default_T_hot_out == R(464, 10)
default_T_cold_in == R(255, 10)
default_T_cold_out == R(430, 10)
default_air_specific_heat == R(201, 200)

(* The four derived defaults are evaluated once, in the class body, from   *)
(* the default temperatures above: they are constants of the class.        *)
default_deltaT1 == RSub(default_T_hot_in, default_T_cold_out)
default_deltaT2 == RSub(default_T_hot_out, default_T_cold_in)
default_water_temp_change == RSub(default_T_hot_in, default_T_hot_out)
default_air_temp_change == RSub(default_T_cold_out, default_T_cold_in)

(* Operating points a caller constructs the record with: the flow rate is  *)
(* a multiple -1 .. MaxFlowFactor of the default one, the temperatures are *)
(* the defaults or values that make two of them equal, the two changes     *)
(* equal, or the hot-side change the larger one.                           *)
MaxFlowFactor == 1

FlowRates ==
    {RMul(R(k, 1), default_water_flow_rate_L_min) : k \in -1 .. MaxFlowFactor}

HotInlets == {default_T_hot_in, R(300, 10), R(255, 10)}
HotOutlets == {default_T_hot_out, R(299, 10), R(274, 10)}
ColdInlets == {default_T_cold_in}
ColdOutlets == {default_T_cold_out, R(255, 10)}

(* __init__ generated by @dataclass.  The cached fields are left at None.  *)
(* A caller either leaves the four derived fields at their defaults        *)
(* (explicit = FALSE) or passes the differences of its own temperatures.   *)
ThermoFluidProperties(flow, thi, tho, tci, tco, explicit) ==
    [ cmin |-> None,
      cr |-> None,
      water_flow_rate_L_min |-> flow,
      water_vol_flow_rate |-> None,
      water_density |-> default_water_density,
      water_mass_flow_rate |-> None,
      water_specific_heat |-> default_water_specific_heat,
      T_hot_in |-> thi,
      T_hot_out |-> tho,
      T_cold_in |-> tci,
      T_cold_out |-> tco,
      deltaT1 |-> IF explicit THEN RSub(thi, tco) ELSE default_deltaT1,
      deltaT2 |-> IF explicit THEN RSub(tho, tci) ELSE default_deltaT2,
      water_temp_change |-> IF explicit THEN RSub(thi, tho)
                            ELSE default_water_temp_change,
      air_temp_change |-> IF explicit THEN RSub(tco, tci)
                          ELSE default_air_temp_change,
      air_specific_heat |-> default_air_specific_heat,
      air_mass_flow_rate |-> None ]

-----------------------------------------------------------------------------
(* A call's outcome: the record it leaves, how it ended ("value" or the    *)
(* name of the exception that propagates) and what it returned.            *)

Res(r, k, a, b) == [rec |-> r, kind |-> k, v1 |-> a, v2 |-> b]

Raise(r, k) == Res(r, k, None, None)

(* Line 38-40 with the mass flow rate m. *)
duty(r, m) ==
    Res(r, "value",
        RMul(RMul(RMul(m, r.water_specific_heat), r.water_temp_change),
             Thousand),
        None)

(* calculate_duty with an unset mass flow rate read as 0 (`x or 0`). *)
calculate_duty_unset_as_zero(r) ==
    IF IsNone(r.water_mass_flow_rate) THEN duty(r, Zero)
    ELSE duty(r, r.water_mass_flow_rate)

(* None * float raises TypeError. *)
calculate_duty(r) ==
    IF IsNone(r.water_mass_flow_rate) THEN Raise(r, "TypeError")
    ELSE duty(r, r.water_mass_flow_rate)

(* Lines 46-47 with the volume flow rate vol of line 45. *)
store_water_mass_flow(r, vol) ==
    Res([r EXCEPT !.water_vol_flow_rate = vol,
                  !.water_mass_flow_rate = RMul(vol, r.water_density)],
        "value", RMul(vol, r.water_density), None)

calculate_water_mass_flow(r) ==
    store_water_mass_flow(
        r, RMul(RMul(r.water_flow_rate_L_min, R(1, 1000)), R(1, 60)))

(* Lines 52-53 with the outcome d of calculate_duty and the divisor den:   *)
(* a float division by 0.0 raises ZeroDivisionError before the field is    *)
(* assigned.                                                               *)
store_air_mass_flow(r, d, den) ==
    IF d.kind # "value" THEN d
    ELSE IF RIsZero(den) THEN Raise(r, "ZeroDivisionError")
    ELSE Res([r EXCEPT !.air_mass_flow_rate = RDiv(d.v1, den)],
             "value", RDiv(d.v1, den), None)

calculate_air_mass_flow(r) ==
    store_air_mass_flow(
        r, calculate_duty(r),
        RMul(RMul(r.air_specific_heat, r.air_temp_change), Thousand))

(* Lines 58-59: the two capacity rates, in W/K. *)
hot_capacity_rate(r) ==
    RMul(RMul(r.water_mass_flow_rate, r.water_specific_heat), Thousand)

cold_capacity_rate(r) ==
    RMul(RMul(r.air_mass_flow_rate, r.air_specific_heat), Thousand)

(* Lines 61-64 with the comparison turned around. *)
store_rates_flipped(r, C_h, C_c) ==
    IF RIsZero(C_h) THEN Raise(r, "ZeroDivisionError")
    ELSE Res([r EXCEPT !.cr = RDiv(C_c, C_h),
                       !.cmin = IF RLeq(C_c, C_h) THEN C_h ELSE C_c],
             "value", C_h, C_c)

(* Lines 60-65: cr is assigned first, so C_h = 0 raises before any write. *)
store_rates(r, C_h, C_c) ==
    IF RIsZero(C_h) THEN Raise(r, "ZeroDivisionError")
    ELSE Res([r EXCEPT !.cr = RDiv(C_c, C_h),
                       !.cmin = IF RLeq(C_h, C_c) THEN C_h ELSE C_c],
             "value", C_h, C_c)

calculate_heat_capacity_rates(r) ==
    IF IsNone(r.water_mass_flow_rate) \/ IsNone(r.air_mass_flow_rate)
    THEN Raise(r, "TypeError")
    ELSE store_rates(r, hot_capacity_rate(r), cold_capacity_rate(r))

(* Line 75 with the outcome h of calculate_heat_capacity_rates. *)
actual_heat_transfer(h) ==
    IF h.kind # "value" THEN h
    ELSE Res(h.rec, "value", RMul(h.v1, h.rec.water_temp_change), None)

calculate_actual_heat_transfer(r) ==
    actual_heat_transfer(calculate_heat_capacity_rates(r))

(* Line 80 with the outcome h of calculate_heat_capacity_rates. *)
max_heat_transfer(h) ==
    IF h.kind # "value" THEN h
    ELSE Res(h.rec, "value",
             RMul(h.rec.cmin, RSub(h.rec.T_hot_in, h.rec.T_cold_in)), None)

(* calculate_max_heat_transfer reading self.cmin without computing it. *)
calculate_max_heat_transfer_no_refresh(r) ==
    IF IsNone(r.cmin) THEN Raise(r, "TypeError")
    ELSE Res(r, "value", RMul(r.cmin, RSub(r.T_hot_in, r.T_cold_in)), None)

calculate_max_heat_transfer(r) ==
    max_heat_transfer(calculate_heat_capacity_rates(r))

(* Line 86 with the outcomes a, m of lines 84, 85. *)
effectiveness_ratio(a, m) ==
    IF m.kind # "value" THEN m
    ELSE IF RIsZero(m.v1) THEN Raise(m.rec, "ZeroDivisionError")
    ELSE Res(m.rec, "value", RDiv(a.v1, m.v1), None)

(* Lines 85-86 with the outcome a of line 84. *)
effectiveness_after_actual(a) ==
    IF a.kind # "value" THEN a
    ELSE effectiveness_ratio(a, calculate_max_heat_transfer(a.rec))

calculate_effectiveness(r) ==
    effectiveness_after_actual(calculate_actual_heat_transfer(r))

(* Lines 96-99 with the outcome e of line 95, at a point NTU > 0 (the seed *)
(* is 1.0): 1/cr raises ZeroDivisionError for cr = 0.  The residual itself *)
(* is transcendental; v1, v2 carry eps and cr, which decide whether it has *)
(* a root.                                                                 *)
residual(e) ==
    IF e.kind # "value" THEN e
    ELSE IF RIsZero(e.rec.cr) THEN Raise(e.rec, "ZeroDivisionError")
    ELSE Res(e.rec, "value", e.v1, e.rec.cr)

effectiveness_equation(r) == residual(calculate_effectiveness(r))

(* exp[(1/cr) NTU^0.22 (exp(-cr NTU^0.78) - 1)] is 1 at NTU = 0, falls     *)
(* towards 0 as NTU grows and stays in (0, 1] for every cr # 0, so the     *)
(* residual (1 - eps) - exp[...] has a root NTU >= 0 iff 0 <= eps < 1.     *)
RootExists(eps) == RLeq(Zero, eps) /\ RLt(eps, One)

(* Values the root finder may hand back: the halves -1/2 .. MaxNTUHalves/2. *)
MaxNTUHalves == 4

NTUValues == {R(k, 2) : k \in -1 .. MaxNTUHalves}

(* scipy.optimize.fsolve(func, x0) without full_output: it returns its     *)
(* last iterate whatever the termination flag ier is (1: converged to a    *)
(* root; 5 stands for the flags 2..5: budget exceeded or no progress, for  *)
(* which it only emits a warning).                                         *)
fsolve(eps) ==
    {[x |-> x, ier |-> 1] :
        x \in {y \in NTUValues :
                 /\ RootExists(eps)
                 /\ IF RIsZero(eps) THEN RIsZero(y) ELSE RLt(Zero, y)}}
    \cup {[x |-> x, ier |-> 5] : x \in NTUValues}

-----------------------------------------------------------------------------
(* The state: the record, the last call made on it (with the record as it  *)
(* was before the call), the position of the __main__ script ("api" for a  *)
(* record driven by a caller's own calls) and the script's local names.    *)

NoLocals == [C_h |-> None, C_c |-> None, ntu |-> None, UA |-> None]

Init ==
    /\ \E flow \in FlowRates, thi \in HotInlets, tho \in HotOutlets,
          tci \in ColdInlets, tco \in ColdOutlets, explicit \in BOOLEAN :
          rec = ThermoFluidProperties(flow, thi, tho, tci, tco, explicit)
    /\ last = [op |-> "init", kind |-> "value", v1 |-> None, v2 |-> None,
               pre |-> rec, ier |-> 0]
    /\ pc \in {"api", "water"}
    /\ locals = NoLocals

(* The order of the calls in the __main__ block. *)
NextPc(p) ==
    CASE p = "water" -> "duty"
      [] p = "duty" -> "air"
      [] p = "air" -> "hcr"
      [] p = "hcr" -> "actual"
      [] p = "actual" -> "max"
      [] p = "max" -> "eff"
      [] p = "eff" -> "ntu"
      [] p = "ntu" -> "printUA"
      [] p = "printUA" -> "fin"
      [] p = "fin" -> "done"

(* One call `op` with outcome res: by a caller (pc = "api") or as the next *)
(* statement of the script; an exception ends the script.                  *)
Call(op, res, ier) ==
    /\ pc \in {"api", op}
    /\ rec' = res.rec
    /\ last' = [op |-> op, kind |-> res.kind, v1 |-> res.v1, v2 |-> res.v2,
                pre |-> rec, ier |-> ier]
    /\ pc' = IF pc = "api" THEN "api"
             ELSE IF res.kind = "value" THEN NextPc(pc) ELSE "crashed"

Water ==
    /\ Call("water", calculate_water_mass_flow(rec), 0)
    /\ UNCHANGED locals

Duty ==
    /\ Call("duty", calculate_duty(rec), 0)
    /\ UNCHANGED locals

Air ==
    /\ Call("air", calculate_air_mass_flow(rec), 0)
    /\ UNCHANGED locals

HeatCapacityRates ==
    LET res == calculate_heat_capacity_rates(rec)
    IN  /\ Call("hcr", res, 0)
        /\ locals' = IF pc = "hcr" /\ res.kind = "value"
                     THEN [locals EXCEPT !.C_h = res.v1, !.C_c = res.v2]
                     ELSE locals

Actual ==
    /\ Call("actual", calculate_actual_heat_transfer(rec), 0)
    /\ UNCHANGED locals

Max ==
    /\ Call("max", calculate_max_heat_transfer(rec), 0)
    /\ UNCHANGED locals

Effectiveness ==
    /\ Call("eff", calculate_effectiveness(rec), 0)
    /\ UNCHANGED locals

(* Lines 102-103 with the outcome e of the residual at the seed: fsolve    *)
(* evaluates it there first, so its exception propagates; otherwise        *)
(* whatever fsolve hands back is returned, unchecked.                      *)
ntu_solution(e) ==
    IF e.kind # "value"
    THEN {[res |-> e, ier |-> 0]}
    ELSE {[res |-> Res(e.rec, "value", s.x, None), ier |-> s.ier] :
            s \in fsolve(e.v1)}

(* The set of the outcomes the call can have. *)
calculate_NTU_from_effectiveness(r) == ntu_solution(effectiveness_equation(r))

NTU ==
    \E o \in calculate_NTU_from_effectiveness(rec) :
        /\ Call("ntu", o.res, o.ier)
        /\ locals' = IF pc = "ntu" /\ o.res.kind = "value"
                     THEN [locals EXCEPT !.ntu = o.res.v1]
                     ELSE locals

(* print(f"The Thermal Conductance(UA) is {ntu*C_c} W/K") *)
PrintUA ==
    /\ pc = "printUA"
    /\ locals' = [locals EXCEPT !.UA = RMul(locals.ntu, locals.C_c)]
    /\ pc' = NextPc(pc)
    /\ UNCHANGED <<rec, last>>

(* calculate_fin_efficiency reads and writes no field of the record: it    *)
(* computes from constants local to the method.                            *)
FinEfficiency ==
    /\ pc \in {"api", "fin"}
    /\ last' = [op |-> "fin", kind |-> "value", v1 |-> None, v2 |-> None,
                pre |-> rec, ier |-> 0]
    /\ pc' = IF pc = "api" THEN "api" ELSE NextPc(pc)
    /\ UNCHANGED <<rec, locals>>

Next ==
    \/ Water
    \/ Duty
    \/ Air
    \/ HeatCapacityRates
    \/ Actual
    \/ Max
    \/ Effectiveness
    \/ NTU
    \/ PrintUA
    \/ FinEfficiency

Spec == Init /\ [][Next]_vars

-----------------------------------------------------------------------------
(* Vocabulary of the properties. *)

Returned == last.kind = "value"

FlowsPopulated(r) ==
    ~IsNone(r.water_mass_flow_rate) /\ ~IsNone(r.air_mass_flow_rate)

RatesUnset(r) == IsNone(r.cmin) /\ IsNone(r.cr)

IsMinOf(x, a, b) == (x = a \/ x = b) /\ RLeq(x, a) /\ RLeq(x, b)

IsMaxOf(x, a, b) == (x = a \/ x = b) /\ RLeq(a, x) /\ RLeq(b, x)

NonNegative(x) == IsNone(x) \/ RLeq(Zero, x)

NeedsWater == {"duty", "air", "hcr", "actual", "max", "eff", "ntu"}

NeedsAir == {"hcr", "actual", "max", "eff", "ntu"}

(* C1: calculate_effectiveness never returns a value outside (0, 1]: a     *)
(* ratio q_actual / q_max outside that interval ends in an error instead.  *)
C1_EffectivenessInUnitInterval ==
    last.op = "eff" /\ Returned => RLt(Zero, last.v1) /\ RLeq(last.v1, One)

(* C2: after calculate_heat_capacity_rates returns a pair of positive      *)
(* capacity rates, the stored cr is C_min / C_max, hence at most 1.        *)
C2_CapacityRatioIsMinOverMax ==
    /\ last.op = "hcr"
    /\ Returned
    /\ RLt(Zero, last.v1)
    /\ RLt(Zero, last.v2)
    => /\ \E lo, hi \in {last.v1, last.v2} :
            /\ IsMinOf(lo, last.v1, last.v2)
            /\ IsMaxOf(hi, last.v1, last.v2)
            /\ rec.cr = RDiv(lo, hi)
       /\ RLeq(rec.cr, One)

(* C3: the stored cmin is the smaller of the pair (C_h, C_c) that          *)
(* calculate_heat_capacity_rates returned, ties included, and it stays the *)
(* smaller of the record's two capacity rates after every later call.      *)
C3_CminIsMinimum ==
    /\ last.op = "hcr" /\ Returned => IsMinOf(rec.cmin, last.v1, last.v2)
    /\ ~IsNone(rec.cmin) =>
          IsMinOf(rec.cmin, hot_capacity_rate(rec), cold_capacity_rate(rec))

(* C3 witness: calculate_effectiveness has returned on a record whose two  *)
(* capacity rates are equal and positive, and cmin is that common value.   *)
C3_TieAfterEffectiveness ==
    /\ last.op = "eff"
    /\ Returned
    /\ hot_capacity_rate(rec) = cold_capacity_rate(rec)
    /\ RLt(Zero, rec.cmin)
    /\ rec.cmin = hot_capacity_rate(rec)

(* C4: a zero temperature difference that makes a divisor zero ends the    *)
(* call in DegenerateCondition: calculate_air_mass_flow with               *)
(* air_temp_change = 0, calculate_effectiveness with equal inlets.         *)
C4_ZeroDifferenceIsDegenerateCondition ==
    /\ /\ last.op = "air"
       /\ ~IsNone(last.pre.water_mass_flow_rate)
       /\ RIsZero(last.pre.air_temp_change)
       => last.kind = "DegenerateCondition"
    /\ /\ last.op = "eff"
       /\ FlowsPopulated(last.pre)
       /\ last.pre.T_hot_in = last.pre.T_cold_in
       => last.kind = "DegenerateCondition"

(* C5: every populated flow rate and capacity rate of the record, and the  *)
(* pair returned by calculate_heat_capacity_rates, is non-negative.        *)
C5_RatesNonNegative ==
    /\ NonNegative(rec.water_mass_flow_rate)
    /\ NonNegative(rec.air_mass_flow_rate)
    /\ NonNegative(rec.cmin)
    /\ last.op = "hcr" /\ Returned =>
          NonNegative(last.v1) /\ NonNegative(last.v2)

(* C6: calculate_NTU_from_effectiveness returns a value only when the root *)
(* finder converged to a root, and that value is an NTU >= 0 (stated for   *)
(* the records with a positive flow rate).                                 *)
C6_NonConvergenceReported ==
    /\ last.op = "ntu"
    /\ Returned
    /\ RLt(Zero, rec.water_flow_rate_L_min)
    => last.ier = 1 /\ RLeq(Zero, last.v1)

C8_NoValueBeforeUpstream ==
    \/ last.op \in NeedsWater /\ IsNone(last.pre.water_mass_flow_rate)
    \/ last.op \in NeedsAir /\ IsNone(last.pre.air_mass_flow_rate)
    => ~Returned /\ rec = last.pre

(* C8 witness: calculate_heat_capacity_rates called after                  *)
(* calculate_water_mass_flow but before calculate_air_mass_flow.           *)
C8_RatesCalledBeforeAir ==
    /\ last.op = "hcr"
    /\ ~IsNone(last.pre.water_mass_flow_rate)
    /\ IsNone(last.pre.air_mass_flow_rate)
    /\ last.kind = "TypeError"

(* C9 as stated: with both mass flow rates populated and cmin, cr unset,   *)
(* calculate_max_heat_transfer and calculate_effectiveness return nothing. *)
C9_NoValueWithoutPriorRates ==
    /\ last.op \in {"max", "eff"}
    /\ FlowsPopulated(last.pre)
    /\ RatesUnset(last.pre)
    => ~Returned

(* C9 amended: with both mass flow rates populated and cmin, cr unset, the *)
(* two methods compute the capacity rates themselves.  If C_h = 0 they end *)
(* in ZeroDivisionError with the record unchanged; otherwise cmin and cr   *)
(* are populated by the call, calculate_max_heat_transfer returns          *)
(* cmin * (T_hot_in - T_cold_in), and calculate_effectiveness returns a    *)
(* value unless that product is zero (ZeroDivisionError).                  *)
C9_RatesComputedOnDemand ==
    /\ last.op \in {"max", "eff"}
    /\ FlowsPopulated(last.pre)
    /\ RatesUnset(last.pre)
    => IF RIsZero(hot_capacity_rate(last.pre))
       THEN last.kind = "ZeroDivisionError" /\ rec = last.pre
       ELSE /\ ~IsNone(rec.cmin)
            /\ ~IsNone(rec.cr)
            /\ last.op = "max" =>
                 /\ Returned
                 /\ last.v1 = RMul(rec.cmin, RSub(rec.T_hot_in, rec.T_cold_in))
            /\ last.op = "eff" =>
                 IF RIsZero(RMul(rec.cmin, RSub(rec.T_hot_in, rec.T_cold_in)))
                 THEN last.kind = "ZeroDivisionError"
                 ELSE Returned

(* C9 witness: calculate_max_heat_transfer has returned a value on a       *)
(* record on which cmin and cr were unset.                                 *)
C9_MaxReturnedWithoutPriorRates ==
    /\ last.op = "max"
    /\ FlowsPopulated(last.pre)
    /\ RatesUnset(last.pre)
    /\ Returned
    /\ ~IsNone(rec.cmin)

(* C10: the derived temperature differences of the record are those of     *)
(* the record's own boundary temperatures.                                 *)
C10_DifferencesFollowTemperatures ==
    /\ rec.water_temp_change = RSub(rec.T_hot_in, rec.T_hot_out)
    /\ rec.air_temp_change = RSub(rec.T_cold_out, rec.T_cold_in)
    /\ rec.deltaT1 = RSub(rec.T_hot_in, rec.T_cold_out)
    /\ rec.deltaT2 = RSub(rec.T_hot_out, rec.T_cold_in)

====
